---------------------------- MODULE Spec2Model ----------------------------
(***************************************************************************)
(* Model of the UR RTDE position controller (position_controller.cpp):     *)
(* the control loop (spinner), the goal callbacks run by ros::spinOnce,    *)
(* the three telemetry publisher threads, the SIGINT handler and main's    *)
(* teardown.                                                               *)
(*                                                                         *)
(* Reals are held on a fixed-point grid: a real x is the integer x*K.      *)
(* Joint positions are in 1/K rad, durations in 1/K s.                     *)
(***************************************************************************)
EXTENDS Integers, Naturals, Sequences, FiniteSets, TLC

(***************************************************************************)
(* Bounds of the model                                                     *)
(***************************************************************************)
\* number of requests (messages and service calls) the environment sends
MaxMsgs == 2
\* longest trajectory the environment submits
MaxTrajLen == 2
\* number of requests sent while the shutdown is explored
MaxShutdownMsgs == 1

(***************************************************************************)
(* Constants of the program                                                *)
(***************************************************************************)
\* fixed-point scale of the grid
K == 100
\* position_controller.h (not among the sources): kinematic limits, times K
JOINT_LIMITS == 628
JOINT_VELOCITY_MAX == 314
ACCELERATION == 400
\* the guard added to the radicand (10e-12 in the source): the smallest
\* positive value of the grid
EPS == 1
\* deceleration passed to stopJ and speedStop (2.0), times K
STOP_DECELERATION == 200

VARIABLES
  desired_trajectory_,      \* points of the trajectory still to be executed
  new_trajectory_received_, \* a trajectory is being executed
  actual_joint_position_,   \* joint positions sampled by the last spinner()
  ros_rate_,                \* the ros::Rate member: the loop whose sleep() set
                            \* its cycle start last ("none": the constructor)
  shutdown_,                \* flag set by the signal handler
  ros_ok,                   \* ros::ok()
  rtde_alive,               \* the RTDEController exists and is connected
  proc,                     \* "running", "exited", "aborted", "crashed"
  main_pc, main_j,          \* position of the main thread, next thread to join
  pub_pc,                   \* position of each publisher thread
  joined,                   \* std::thread objects already joined
  sig_thread, sig_pc, sig_j,\* thread running signalHandler, its position
  n_msgs,                   \* requests sent so far
  last,                     \* what the latest operation of the main thread did
  traj_sub, sent, fate,     \* last trajectory submitted, its points dispatched
                            \* since, and what has happened to it
  discarded                 \* points still to execute that the last submission
                            \* overwrote

vars == <<desired_trajectory_, new_trajectory_received_, actual_joint_position_,
          ros_rate_,
          shutdown_, ros_ok, rtde_alive, proc, main_pc, main_j, pub_pc, joined,
          sig_thread, sig_pc, sig_j, n_msgs, last, traj_sub, sent, fate,
          discarded>>

ctrl_vars == <<desired_trajectory_, new_trajectory_received_, actual_joint_position_,
               ros_rate_>>
obs_vars == <<last, traj_sub, sent, fate, discarded>>
thread_vars == <<shutdown_, ros_ok, rtde_alive, pub_pc, joined, sig_thread, sig_pc, sig_j>>

(***************************************************************************)
(* Data                                                                    *)
(***************************************************************************)
Vec6(x) == <<x, 0, 0, 0, 0, 0>>

\* the three telemetry threads, in the order main and signalHandler join them
Threads == <<"publishJointState", "publishTCPPose", "publishFTSensor">>
Pubs == {Threads[i] : i \in 1..3}

\* joint positions the robot can report (getActualQ)
CurrentQs == {Vec6(0), Vec6(-600)}

\* trajectory points: position vectors, taken as they come
Points == {Vec6(100), Vec6(200)}

RECURSIVE SeqsUpTo(_, _)
SeqsUpTo(S, n) ==
  IF n = 0 THEN {<<>>}
  ELSE LET shorter == SeqsUpTo(S, n - 1)
       IN  shorter \cup {Append(s, x) : s \in {t \in shorter : Len(t) = n - 1}, x \in S}

Trajectories == SeqsUpTo(Points, MaxTrajLen)

\* joint goals: positions and time_from_start
GoalPositions == {Vec6(0), Vec6(100), Vec6(400), Vec6(-700), <<0, 0, 0, 0, 0>>}
GoalTimes == {-200, 0, 50, 200}
JointGoals == [positions : GoalPositions, time_from_start : GoalTimes]

\* the requests sent while the shutdown is explored
ShutdownTrajectories == {<<Vec6(100), Vec6(200)>>}
ShutdownGoals == {[positions |-> Vec6(100), time_from_start |-> 200]}

\* the value a read outside a vector yields
Garbage == <<>>

\* commands to the hardware interface
Cmd(name, target, velocity, acceleration) ==
  [name |-> name, target |-> target, velocity |-> velocity, acceleration |-> acceleration]
\* a command that reports whether it succeeded
Call(name, target, acceleration, result) ==
  [name |-> name, target |-> target, velocity |-> 0, acceleration |-> acceleration,
   result |-> result]
\* moveJ(q) without speed and acceleration: the library's defaults 1.05 and 1.4
DEFAULT_SPEED == 105
DEFAULT_ACCELERATION == 140

\* record of an operation of the main thread: the request handled, the hardware
\* commands issued, the "trajectory executed" notifications published, the
\* path length and duration the planner used, the value returned
Did(op, msg, cmds, pubs, L, T, ok) ==
  [op |-> op, msg |-> msg, cmds |-> cmds, pubs |-> pubs, L |-> L, T |-> T, ok |-> ok]
NoOp == Did("none", <<>>, <<>>, 0, 0, 0, TRUE)

Abs(x) == IF x < 0 THEN -x ELSE x
Max(S) == CHOOSE x \in S : \A y \in S : y <= x

\* std::sqrt on the grid, rounded up: the least r with r*r >= n
SqrtUp(n) == CHOOSE r \in 0..(n + 1) : r * r >= n /\ (r = 0 \/ (r - 1) * (r - 1) < n)


(***************************************************************************)
(* jointGoalCallback: validation and trapezoidal profile                   *)
(***************************************************************************)
\* msg.positions.size() != 6
WrongSize(msg) == Len(msg.positions) # 6
\* msg.time_from_start.toSec() == 0
ZeroTime(msg) == msg.time_from_start = 0
\* variant: the comparison without abs()
OutsideLimits_no_abs(msg) == \E i \in 1..Len(msg.positions) : msg.positions[i] > JOINT_LIMITS
\* (desired_pose.array().abs() > JOINT_LIMITS).any()
OutsideLimits(msg) == \E i \in 1..Len(msg.positions) : Abs(msg.positions[i]) > JOINT_LIMITS

\* LP = (desired_pose - actual_pose).array().abs().maxCoeff()
PathLength(desired, actual) == Max({Abs(desired[i] - actual[i]) : i \in 1..6})

\* acceleration < 4 * LP / pow(T,2)
Insufficient(T, LP) == ACCELERATION * T * T < 4 * LP * K * K
\* 4 * LP / acceleration, the square of the minimum time, in 1/K^2 s^2
MinTimeSq(LP) == (4 * LP * K * K) \div ACCELERATION
\* T after the check of the acceleration, and its square
PlanT(T, LP) == IF Insufficient(T, LP) THEN SqrtUp(MinTimeSq(LP)) ELSE T
PlanTSq(T, LP) == IF Insufficient(T, LP) THEN MinTimeSq(LP) ELSE T * T
\* (pow(T,2) * acceleration - 4.0 * LP) / acceleration + 10e-12
Radicand(T, LP) == (PlanTSq(T, LP) * ACCELERATION - 4 * LP * K * K) \div ACCELERATION + EPS
\* 2 * ta, ta = T/2.0 - 0.5 * sqrt(radicand)
Ta2(T, LP) == PlanT(T, LP) - SqrtUp(Radicand(T, LP))
\* 2 * velocity, velocity = ta * acceleration
Velocity2(T, LP) == (Ta2(T, LP) * ACCELERATION) \div K
\* variant: ta compared instead of the velocity
TooFast_ta(T, LP) == Ta2(T, LP) > 2 * JOINT_VELOCITY_MAX
\* velocity > JOINT_VELOCITY_MAX
TooFast(T, LP) == Velocity2(T, LP) > 2 * JOINT_VELOCITY_MAX

(***************************************************************************)
(* Callbacks run by ros::spinOnce on the main thread                       *)
(***************************************************************************)
Running == proc = "running"
\* the main thread runs unless signalHandler runs on it
MainRuns == Running /\ sig_thread # "main"
InSpin == MainRuns /\ main_pc = "spin" /\ ros_ok

\* the points dispatched since the submission, kept one past its length
Dispatched(s, sub, point) == IF Len(s) <= Len(sub) THEN Append(s, point) ELSE s

Preempt(f) == IF f = "active" THEN "preempted" ELSE f

\* the points a submission overwrites while they are being executed
Pending == IF new_trajectory_received_ THEN Len(desired_trajectory_) ELSE 0

\* variant: the points are appended to the trajectory being executed
jointTrajectoryCallback_appends(msg) ==
  /\ InSpin
  /\ desired_trajectory_' = IF new_trajectory_received_
                            THEN desired_trajectory_ \o msg ELSE msg
  /\ new_trajectory_received_' = TRUE
  /\ n_msgs' = n_msgs + 1
  /\ last' = Did("jointTrajectory", msg, <<>>, 0, 0, 0, TRUE)
  /\ traj_sub' = msg /\ sent' = <<>> /\ fate' = "active"
  /\ discarded' = Pending
  /\ UNCHANGED <<actual_joint_position_, ros_rate_, proc, main_pc, main_j>>
  /\ UNCHANGED thread_vars

\* desired_trajectory_ = *msg; new_trajectory_received_ = true
jointTrajectoryCallback(msg) ==
  /\ InSpin
  /\ desired_trajectory_' = msg
  /\ new_trajectory_received_' = TRUE
  /\ n_msgs' = n_msgs + 1
  /\ last' = Did("jointTrajectory", msg, <<>>, 0, 0, 0, TRUE)
  /\ traj_sub' = msg /\ sent' = <<>> /\ fate' = "active"
  /\ discarded' = Pending
  /\ UNCHANGED <<actual_joint_position_, ros_rate_, proc, main_pc, main_j>>
  /\ UNCHANGED thread_vars

\* variant: a refused goal is reported as executed
jointGoalDropped_publishes(msg) ==
  /\ last' = Did("jointGoal", msg, <<>>, 1, 0, 0, FALSE)
  /\ UNCHANGED <<ctrl_vars, proc, traj_sub, discarded, sent, fate>>

\* the goal is refused: the callback returns before any command
jointGoalDropped(msg) ==
  /\ last' = Did("jointGoal", msg, <<>>, 0, 0, 0, FALSE)
  /\ UNCHANGED <<ctrl_vars, proc, traj_sub, discarded, sent, fate>>

\* the goal is planned against the joint positions `actual`
jointGoalPlanned(msg, actual) ==
  LET LP == PathLength(msg.positions, actual)
      T0 == msg.time_from_start
      T  == PlanT(T0, LP)
      velocity2 == Velocity2(T0, LP)
  IN  IF TooFast(T0, LP)
      THEN /\ last' = Did("jointGoal", msg, <<>>, 0, LP, T, FALSE)
           /\ UNCHANGED <<ctrl_vars, proc, traj_sub, discarded, sent, fate>>
      ELSE /\ last' = Did("jointGoal", msg,
                          <<Cmd("moveJ", msg.positions, velocity2, ACCELERATION)>>,
                          1, LP, T, TRUE)
           /\ new_trajectory_received_' = FALSE
           /\ fate' = Preempt(fate)
           /\ UNCHANGED <<desired_trajectory_, actual_joint_position_, ros_rate_, proc,
                          traj_sub, discarded, sent>>

jointGoalCallback(msg) ==
  /\ InSpin
  /\ n_msgs' = n_msgs + 1
  /\ UNCHANGED <<main_pc, main_j>>
  /\ UNCHANGED thread_vars
  /\ IF WrongSize(msg) \/ ZeroTime(msg) \/ OutsideLimits(msg)
     THEN jointGoalDropped(msg)
     ELSE IF Len(actual_joint_position_) = 6
          THEN jointGoalPlanned(msg, actual_joint_position_)
          \* before the first spinner() the vector is empty: the difference
          \* of vectors of unequal size is undefined, it aborts or reads
          \* whatever lies there
          ELSE \/ /\ proc' = "crashed"
                  /\ last' = Did("jointGoal", msg, <<>>, 0, 0, 0, FALSE)
                  /\ UNCHANGED <<ctrl_vars, traj_sub, discarded, sent, fate>>
               \/ \E q \in CurrentQs : jointGoalPlanned(msg, q)

cartesianGoalCallback ==
  /\ InSpin
  /\ n_msgs' = n_msgs + 1
  /\ last' = Did("cartesianGoal", <<>>, <<Cmd("moveL", <<>>, 0, 0)>>, 1, 0, 0, TRUE)
  /\ new_trajectory_received_' = FALSE
  /\ fate' = Preempt(fate)
  /\ UNCHANGED <<desired_trajectory_, actual_joint_position_, ros_rate_, proc, main_pc, main_j,
                 traj_sub, discarded, sent>>
  /\ UNCHANGED thread_vars

\* variant: new_trajectory_received_ is not reset
stopRobotCallback_keeps_flag ==
  /\ InSpin
  /\ n_msgs' = n_msgs + 1
  /\ \E success \in BOOLEAN :
        last' = Did("stopRobot", <<>>,
                    <<Call("speedStop", <<>>, STOP_DECELERATION, success)>>,
                    0, 0, 0, success)
  /\ fate' = IF fate = "active" THEN "stopped" ELSE fate
  /\ UNCHANGED <<ctrl_vars, proc, main_pc, main_j, traj_sub, discarded, sent>>
  /\ UNCHANGED thread_vars

\* speedStop(2.0); new_trajectory_received_ = false; the points are kept
stopRobotCallback ==
  /\ InSpin
  /\ n_msgs' = n_msgs + 1
  /\ \E success \in BOOLEAN :
        last' = Did("stopRobot", <<>>,
                    <<Call("speedStop", <<>>, STOP_DECELERATION, success)>>,
                    0, 0, 0, success)
  /\ new_trajectory_received_' = FALSE
  /\ fate' = IF fate = "active" THEN "stopped" ELSE fate
  /\ UNCHANGED <<desired_trajectory_, actual_joint_position_, ros_rate_, proc, main_pc, main_j,
                 traj_sub, discarded, sent>>
  /\ UNCHANGED thread_vars

(***************************************************************************)
(* Pose2RTDE and RTDE2Pose, on a grid of 1/Q: quaternion components,       *)
(* lengths and angles (in radians) are integers, times Q                   *)
(***************************************************************************)
Q == 10000
PI == 31416
\* the largest integer whose square is below 2^31
MaxRoot == 46340

RECURSIVE SqrtSearch(_, _, _)
SqrtSearch(n, lo, hi) ==
  IF lo >= hi THEN lo
  ELSE LET mid == (lo + hi + 1) \div 2
       IN  IF mid * mid <= n THEN SqrtSearch(n, mid, hi) ELSE SqrtSearch(n, lo, mid - 1)
sqrt(n) == SqrtSearch(n, 0, MaxRoot)

\* the power series term - term*x^2/((k+1)(k+2)) + ..., until a term is 0
RECURSIVE Series(_, _, _, _)
Series(x, term, k, sum) ==
  IF term = 0 THEN sum
  ELSE Series(x, -(((term * x) \div Q) * x) \div (Q * (k + 1) * (k + 2)), k + 2, sum + term)
sin(x) == Series(x, x, 1, 0)
cos(x) == Series(x, Q, 0, 0)

\* atan2(y, x) for y >= 0 and x >= 0: the angle in [0, pi/2] whose tangent is y/x
RECURSIVE AtanSearch(_, _, _, _)
AtanSearch(y, x, lo, hi) ==
  IF hi - lo <= 1 THEN lo
  ELSE LET mid == (lo + hi) \div 2
       IN  IF sin(mid) * x <= cos(mid) * y THEN AtanSearch(y, x, mid, hi)
           ELSE AtanSearch(y, x, lo, mid)
atan2(y, x) == AtanSearch(y, x, 0, PI \div 2 + 1)

squaredNorm(v) == v[1] * v[1] + v[2] * v[2] + v[3] * v[3]

\* Eigen::AngleAxisd(quaternion): the angle is 2*atan2(|vec|, |w|), the axis is
\* vec/|vec| turned round when w < 0; without a vector part, angle 0 about x
AngleAxisd(quaternion) ==
  LET vec == <<quaternion.x, quaternion.y, quaternion.z>>
      n == sqrt(squaredNorm(vec))
  IN  IF n # 0
      THEN [angle |-> 2 * atan2(n, Abs(quaternion.w)),
            axis |-> [i \in 1..3 |-> (vec[i] * Q) \div (IF quaternion.w < 0 THEN -n ELSE n)]]
      ELSE [angle |-> 0, axis |-> <<Q, 0, 0>>]

\* Eigen's normalized(): the vector over its norm, a zero vector as it is
normalized(v) ==
  LET z == squaredNorm(v)
  IN  IF z > 0 THEN [i \in 1..3 |-> (v[i] * Q) \div sqrt(z)] ELSE v

\* Eigen::Quaterniond(Eigen::AngleAxisd(angle, axis))
Quaterniond(angle, axis) ==
  LET s == sin(angle \div 2)
  IN  [w |-> cos(angle \div 2),
       x |-> (s * axis[1]) \div Q, y |-> (s * axis[2]) \div Q, z |-> (s * axis[3]) \div Q]

\* variant: the axis is not multiplied by the angle
Pose2RTDE_axis_only(pose) ==
  pose.position \o AngleAxisd(pose.orientation).axis

\* position, then the rotation vector axis * angle
Pose2RTDE(pose) ==
  LET axis == AngleAxisd(pose.orientation).axis
      angle == AngleAxisd(pose.orientation).angle
      euler_orientation == [i \in 1..3 |-> (axis[i] * angle) \div Q]
  IN  pose.position \o euler_orientation

\* the angle is the length of (rx, ry, rz), the axis its direction
RTDE2Pose(rtde_pose) ==
  LET angle == sqrt(squaredNorm(SubSeq(rtde_pose, 4, 6)))
      axis == normalized(SubSeq(rtde_pose, 4, 6))
  IN  [position |-> SubSeq(rtde_pose, 1, 3), orientation |-> Quaterniond(angle, axis)]

\* poses of a request: two positions; orientations about five axes by the
\* angles whose half has cosine 1, 0.8, 0.6, 0.28 or 0, with w of either sign
Positions == {<<0, 0, 0>>, <<4000, -2000, 5000>>}
Axes == {<<10000, 0, 0>>, <<0, 10000, 0>>, <<0, 0, -10000>>, <<6000, 8000, 0>>,
         <<4800, -6400, 6000>>}
HalfAngles == {<<10000, 0>>, <<8000, 6000>>, <<6000, 8000>>, <<2800, 9600>>, <<0, 10000>>}
Orientations ==
  {[w |-> sign * h[1], x |-> (h[2] * a[1]) \div Q, y |-> (h[2] * a[2]) \div Q,
    z |-> (h[2] * a[3]) \div Q] : sign \in {1, -1}, h \in HalfAngles, a \in Axes}
Poses == {[position |-> p, orientation |-> o] : p \in Positions, o \in Orientations}
\* poses the robot reports
TcpPoses == {<<0, 0, 0, 0, 0, 0>>, <<4000, -2000, 5000, 0, 15708, 0>>,
             <<4000, -2000, 5000, -12000, 0, 9000>>}

\* tcp_pose = Pose2RTDE(req.tcp_position), handed to getInverseKinematics
GetInverseKinematicCallback(tcp_position) ==
  /\ InSpin
  /\ n_msgs' = n_msgs + 1
  /\ last' = Did("GetInverseKinematic", tcp_position,
                 <<Cmd("getInverseKinematics", Pose2RTDE(tcp_position), 0, 0)>>,
                 0, 0, 0, TRUE)
  /\ UNCHANGED <<ctrl_vars, proc, main_pc, main_j, traj_sub, sent, fate, discarded>>
  /\ UNCHANGED thread_vars

\* getForwardKinematics answers tcp_pose; the reply is RTDE2Pose(tcp_pose)
GetForwardKinematicCallback(tcp_pose) ==
  /\ InSpin
  /\ n_msgs' = n_msgs + 1
  /\ last' = Did("GetForwardKinematic", RTDE2Pose(tcp_pose),
                 <<Cmd("getForwardKinematics", tcp_pose, 0, 0)>>, 0, 0, 0, TRUE)
  /\ UNCHANGED <<ctrl_vars, proc, main_pc, main_j, traj_sub, sent, fate, discarded>>
  /\ UNCHANGED thread_vars

(***************************************************************************)
(* Trigger services that leave the trajectory alone                        *)
(***************************************************************************)
\* what a trigger callback does: one call of the hardware interface, whose
\* result is the answer
Trigger(op, msg, name, success) ==
  /\ InSpin
  /\ n_msgs' = n_msgs + 1
  /\ last' = Did(op, msg, <<Call(name, msg, 0, success)>>, 0, 0, 0, success)
  /\ UNCHANGED <<ctrl_vars, proc, main_pc, main_j, traj_sub, sent, fate, discarded>>
  /\ UNCHANGED thread_vars

\* variant: the answer is true whatever zeroFtSensor returned
zeroFTSensorCallback_answers_true ==
  /\ InSpin
  /\ n_msgs' = n_msgs + 1
  /\ \E success \in BOOLEAN :
        last' = Did("zeroFTSensor", <<>>, <<Call("zeroFtSensor", <<>>, 0, success)>>,
                    0, 0, 0, TRUE)
  /\ UNCHANGED <<ctrl_vars, proc, main_pc, main_j, traj_sub, sent, fate, discarded>>
  /\ UNCHANGED thread_vars

\* res.success = rtde_control_ -> zeroFtSensor()
zeroFTSensorCallback ==
  \E success \in BOOLEAN : Trigger("zeroFTSensor", <<>>, "zeroFtSensor", success)

\* axes a caller frees: x alone, or all six
FreeAxes == {<<1, 0, 0, 0, 0, 0>>, <<1, 1, 1, 1, 1, 1>>}

\* res.success = rtde_control_ -> freedriveMode(req.free_axes)
startFreedriveModeCallback(free_axes) ==
  \E success \in BOOLEAN : Trigger("startFreedriveMode", free_axes, "freedriveMode", success)

\* res.success = rtde_control_ -> endFreedriveMode()
stopFreedriveModeCallback ==
  \E success \in BOOLEAN : Trigger("stopFreedriveMode", <<>>, "endFreedriveMode", success)

(***************************************************************************)
(* GetSafetyStatusCallback                                                 *)
(***************************************************************************)
\* the tables documented in the callback: robot modes -1..8, safety modes 0..8
RobotModeTable ==
  <<"ROBOT_MODE_NO_CONTROLLER", "ROBOT_MODE_DISCONNECTED", "ROBOT_MODE_CONFIRM_SAFETY",
    "ROBOT_MODE_BOOTING", "ROBOT_MODE_POWER_OFF", "ROBOT_MODE_POWER_ON",
    "ROBOT_MODE_IDLE", "ROBOT_MODE_BACKDRIVE", "ROBOT_MODE_RUNNING",
    "ROBOT_MODE_UPDATING_FIRMWARE">>
SafetyModeTable ==
  <<"NORMAL", "REDUCED", "PROTECTIVE_STOP", "RECOVERY", "SAFEGUARD_STOP",
    "SYSTEM_EMERGENCY_STOP", "ROBOT_EMERGENCY_STOP", "VIOLATION", "FAULT">>

\* the vectors the callback builds
robot_mode_msg ==
  <<"ROBOT_MODE_NO_CONTROLLER", "ROBOT_MODE_DISCONNECTED", "ROBOT_MODE_CONFIRM_SAFETY",
    "ROBOT_MODE_BOOTING", "ROBOT_MODE_POWER_OFF", "ROBOT_MODE_POWER_ON",
    "ROBOT_MODE_IDLE", "ROBOT_MODE_BACKDRIVE", "ROBOT_MODE_RUNNING",
    "ROBOT_MODE_UPDATING_FIRMWARE">>
\* "VIOLATION" "FAULT", without a comma, is one string literal
safety_mode_msg ==
  <<"NORMAL", "REDUCED", "PROTECTIVE_STOP", "RECOVERY", "SAFEGUARD_STOP",
    "SYSTEM_EMERGENCY_STOP", "ROBOT_EMERGENCY_STOP", "VIOLATIONFAULT">>
safety_status_bits_msg ==
  <<"Is normal mode", "Is reduced mode", "Is protective stopped", "Is recovery mode",
    "Is safeguard stopped", "Is system emergency stopped", "Is robot emergency stopped",
    "Is emergency stopped", "Is violation", "Is fault", "Is stopped due to safety">>

\* the codes the robot reports: the documented modes, and values of the
\* status bit field with one bit or two bits set
RobotModes == -1 .. 8
SafetyModes == 0 .. 8
BitValue(b) == 2 ^ b
SafetyStatusBits == {BitValue(b) : b \in {0, 1, 2, 10}} \cup {BitValue(0) + BitValue(1)}

\* what a read of an element that does not exist may yield
GarbageLabel == "(indeterminate)"
\* v[i] of a std::vector, unchecked
InVector(v, i) == i >= 0 /\ i < Len(v)
Element(v, i) == IF InVector(v, i) THEN v[i + 1] ELSE GarbageLabel

\* the three codes are read and each indexes its vector; an index past the end
\* is undefined, it faults or yields whatever lies there
GetSafetyStatusCallback(robot_mode, safety_mode, safety_status_bits) ==
  /\ InSpin
  /\ n_msgs' = n_msgs + 1
  /\ LET res == [robot_mode |-> robot_mode,
                 robot_mode_msg |-> Element(robot_mode_msg, robot_mode + 1),
                 safety_mode |-> safety_mode,
                 safety_mode_msg |-> Element(safety_mode_msg, safety_mode),
                 safety_status_bits |-> safety_status_bits,
                 safety_status_bits_msg |-> Element(safety_status_bits_msg,
                                                    safety_status_bits)]
         past_end == \/ ~InVector(robot_mode_msg, robot_mode + 1)
                     \/ ~InVector(safety_mode_msg, safety_mode)
                     \/ ~InVector(safety_status_bits_msg, safety_status_bits)
     IN  \/ /\ last' = Did("GetSafetyStatus", res, <<>>, 0, 0, 0, TRUE)
            /\ UNCHANGED proc
         \/ /\ past_end
            /\ proc' = "crashed"
            /\ last' = Did("GetSafetyStatus", res, <<>>, 0, 0, 0, FALSE)
  /\ UNCHANGED <<ctrl_vars, main_pc, main_j, traj_sub, sent, fate, discarded>>
  /\ UNCHANGED thread_vars

(***************************************************************************)
(* spinner: one tick of the control loop, and main's loop around it        *)
(***************************************************************************)
main_vars == <<main_pc, main_j>>

\* while (ros::ok()): enter spinner(), or leave the loop for the joins
main_while ==
  /\ MainRuns /\ main_pc = "while"
  /\ main_pc' = IF ros_ok THEN "spin" ELSE "join"
  /\ main_j' = 1
  /\ UNCHANGED <<ctrl_vars, proc, n_msgs, obs_vars>>
  /\ UNCHANGED thread_vars

\* ros::spinOnce() returns; the joint positions are read from the robot
spinner_update ==
  /\ MainRuns /\ main_pc = "spin"
  /\ \E q \in CurrentQs : actual_joint_position_' = q
  /\ main_pc' = "tick"
  /\ UNCHANGED <<desired_trajectory_, new_trajectory_received_, ros_rate_, proc, main_j,
                 n_msgs, obs_vars>>
  /\ UNCHANGED thread_vars

\* ros_rate_.sleep(): wait for the end of the cycle that the ros::Rate has
\* running, and start its next cycle
sleep(loop) == ros_rate_' = loop

\* no trajectory is being executed: sleep until the next tick
spinner_idle ==
  /\ MainRuns /\ main_pc = "tick" /\ ~new_trajectory_received_
  /\ main_pc' = "while"
  /\ last' = Did("spinner", <<>>, <<>>, 0, 0, 0, TRUE)
  /\ sleep("main")
  /\ UNCHANGED <<desired_trajectory_, new_trajectory_received_, actual_joint_position_,
                 proc, main_j, n_msgs, traj_sub, discarded, sent, fate>>
  /\ UNCHANGED thread_vars

\* moveJ(desired_trajectory_.points[0].positions); the call blocks
spinner_moveJ ==
  /\ MainRuns /\ main_pc = "tick" /\ new_trajectory_received_
  /\ UNCHANGED <<ctrl_vars, main_j, n_msgs, traj_sub, discarded, fate>>
  /\ UNCHANGED thread_vars
  /\ IF desired_trajectory_ # <<>>
     THEN LET point == Head(desired_trajectory_)
          IN  /\ last' = Did("spinner", point,
                             <<Cmd("moveJ", point, DEFAULT_SPEED, DEFAULT_ACCELERATION)>>,
                             0, 0, 0, TRUE)
              /\ sent' = Dispatched(sent, traj_sub, point)
              /\ main_pc' = "moving"
              /\ UNCHANGED proc
     \* points[0] of an empty vector: the read is undefined, it faults or
     \* yields whatever lies there
     ELSE \/ /\ proc' = "crashed"
             /\ UNCHANGED <<main_pc, last, sent>>
          \/ /\ last' = Did("spinner", Garbage,
                            <<Cmd("moveJ", Garbage, DEFAULT_SPEED, DEFAULT_ACCELERATION)>>,
                            0, 0, 0, FALSE)
             /\ sent' = Dispatched(sent, traj_sub, Garbage)
             /\ main_pc' = "moving"
             /\ UNCHANGED proc

\* variant: the last point erased instead of the first
Erase_last(points) == SubSeq(points, 1, Len(points) - 1)
\* desired_trajectory_.points.erase(desired_trajectory_.points.begin())
Erase(points) == Tail(points)

\* variant: the trajectory ends one point early
Ended_early(points) == Len(points) <= 1
\* if (desired_trajectory_.points.size() == 0)
Ended(points) == Len(points) = 0

\* moveJ returned: erase the point, end the trajectory after the last one,
\* sleep until the next tick
spinner_erase ==
  /\ MainRuns /\ main_pc = "moving"
  /\ UNCHANGED <<actual_joint_position_, main_j, n_msgs, traj_sub, discarded, sent>>
  /\ UNCHANGED thread_vars
  /\ IF desired_trajectory_ # <<>>
     THEN /\ desired_trajectory_' = Erase(desired_trajectory_)
          /\ main_pc' = "while"
          /\ sleep("main")
          /\ UNCHANGED proc
          /\ IF Ended(desired_trajectory_')
             THEN /\ new_trajectory_received_' = FALSE
                  /\ last' = [last EXCEPT
                                !.cmds = Append(@, Cmd("stopJ", <<>>, 0, STOP_DECELERATION)),
                                !.pubs = @ + 1]
                  /\ fate' = IF fate = "active" THEN "done" ELSE fate
             ELSE UNCHANGED <<new_trajectory_received_, last, fate>>
     \* erase(begin()) of an empty vector: undefined, it faults or leaves a
     \* vector whose size is not 0
     ELSE \/ /\ proc' = "crashed"
             /\ UNCHANGED <<desired_trajectory_, new_trajectory_received_, ros_rate_,
                            main_pc, last, fate>>
          \/ /\ main_pc' = "while"
             /\ sleep("main")
             /\ UNCHANGED <<desired_trajectory_, new_trajectory_received_, proc, last, fate>>

\* the main thread uses the controller after signalHandler, on another
\* thread, deleted it: undefined, the access may fault
main_use_after_free ==
  /\ MainRuns /\ main_pc \in {"spin", "tick", "moving"} /\ ~rtde_alive
  /\ proc' = "crashed"
  /\ UNCHANGED <<ctrl_vars, main_vars, n_msgs, obs_vars>>
  /\ UNCHANGED thread_vars

(***************************************************************************)
(* Telemetry threads: publishJointState, publishTCPPose, publishFTSensor   *)
(***************************************************************************)
\* while (ros::ok() && !shutdown_)
publish_while(t) ==
  /\ Running /\ sig_thread # t /\ pub_pc[t] = "while"
  /\ pub_pc' = [pub_pc EXCEPT ![t] = IF ros_ok /\ ~shutdown_ THEN "read" ELSE "done"]
  /\ UNCHANGED <<ctrl_vars, proc, main_vars, n_msgs, obs_vars>>
  /\ UNCHANGED <<shutdown_, ros_ok, rtde_alive, joined, sig_thread, sig_pc, sig_j>>

\* the body: read from the robot, publish, sleep
publish_body(t) ==
  /\ Running /\ sig_thread # t /\ pub_pc[t] = "read"
  /\ pub_pc' = [pub_pc EXCEPT ![t] = "while"]
  /\ sleep(t)
  /\ UNCHANGED <<desired_trajectory_, new_trajectory_received_, actual_joint_position_,
                 proc, main_vars, n_msgs, obs_vars>>
  /\ UNCHANGED <<shutdown_, ros_ok, rtde_alive, joined, sig_thread, sig_pc, sig_j>>

(***************************************************************************)
(* Shutdown: signalHandler, and main after its loop                        *)
(***************************************************************************)
\* threads a process-directed SIGINT can be delivered to: the main thread,
\* a live telemetry thread, a thread started by a library
SignalTargets == {"main", "other"} \cup {t \in Pubs : pub_pc[t] # "done"}

\* variant: the controller is deleted without joining the threads
signalHandler_no_join(t) ==
  /\ Running /\ sig_thread = "none" /\ t \in SignalTargets
  /\ sig_thread' = t
  /\ shutdown_' = TRUE
  /\ sig_pc' = "delete"
  /\ sig_j' = 1
  /\ UNCHANGED <<ctrl_vars, proc, main_vars, n_msgs, obs_vars>>
  /\ UNCHANGED <<ros_ok, rtde_alive, pub_pc, joined>>

\* SIGINT is delivered on thread t: shutdown_ = true
signalHandler(t) ==
  /\ Running /\ sig_thread = "none" /\ t \in SignalTargets
  /\ sig_thread' = t
  /\ shutdown_' = TRUE
  /\ sig_pc' = "join"
  /\ sig_j' = 1
  /\ UNCHANGED <<ctrl_vars, proc, main_vars, n_msgs, obs_vars>>
  /\ UNCHANGED <<ros_ok, rtde_alive, pub_pc, joined>>

\* std::thread::join throws when the thread joins itself or was joined before
JoinThrows(t, self) == t = self \/ joined[t]

\* publishX -> join() in signalHandler
handler_join ==
  /\ Running /\ sig_pc = "join"
  /\ UNCHANGED <<ctrl_vars, main_vars, n_msgs, obs_vars>>
  /\ UNCHANGED <<shutdown_, ros_ok, rtde_alive, pub_pc, sig_thread>>
  /\ LET t == Threads[sig_j]
     IN  IF JoinThrows(t, sig_thread)
         THEN /\ proc' = "aborted"
              /\ UNCHANGED <<joined, sig_pc, sig_j>>
         ELSE /\ pub_pc[t] = "done"
              /\ joined' = [joined EXCEPT ![t] = TRUE]
              /\ sig_pc' = IF sig_j = 3 THEN "delete" ELSE "join"
              /\ sig_j' = IF sig_j = 3 THEN sig_j ELSE sig_j + 1
              /\ UNCHANGED proc

\* delete rtde in signalHandler: stopJ, disconnect
handler_delete ==
  /\ Running /\ sig_pc = "delete"
  /\ rtde_alive' = FALSE
  /\ sig_pc' = "exit"
  /\ UNCHANGED <<ctrl_vars, proc, main_vars, n_msgs, obs_vars>>
  /\ UNCHANGED <<shutdown_, ros_ok, pub_pc, joined, sig_thread, sig_j>>

\* exit(signal)
handler_exit ==
  /\ Running /\ sig_pc = "exit"
  /\ proc' = "exited"
  /\ UNCHANGED <<ctrl_vars, main_vars, n_msgs, obs_vars>>
  /\ UNCHANGED thread_vars

\* publishX -> join() in main
main_join ==
  /\ MainRuns /\ main_pc = "join"
  /\ UNCHANGED <<ctrl_vars, n_msgs, obs_vars>>
  /\ UNCHANGED <<shutdown_, ros_ok, rtde_alive, pub_pc, sig_thread, sig_pc, sig_j>>
  /\ LET t == Threads[main_j]
     IN  IF JoinThrows(t, "main")
         THEN /\ proc' = "aborted"
              /\ UNCHANGED <<joined, main_pc, main_j>>
         ELSE /\ pub_pc[t] = "done"
              /\ joined' = [joined EXCEPT ![t] = TRUE]
              /\ main_pc' = IF main_j = 3 THEN "delete" ELSE "join"
              /\ main_j' = IF main_j = 3 THEN main_j ELSE main_j + 1
              /\ UNCHANGED proc

\* delete rtde in main: stopJ, disconnect
main_delete ==
  /\ MainRuns /\ main_pc = "delete"
  /\ rtde_alive' = FALSE
  /\ main_pc' = "return"
  /\ UNCHANGED <<ctrl_vars, proc, main_j, n_msgs, obs_vars>>
  /\ UNCHANGED <<shutdown_, ros_ok, pub_pc, joined, sig_thread, sig_pc, sig_j>>

\* return 0
main_return ==
  /\ MainRuns /\ main_pc = "return"
  /\ proc' = "exited"
  /\ UNCHANGED <<ctrl_vars, main_vars, n_msgs, obs_vars>>
  /\ UNCHANGED thread_vars

\* the ROS runtime shuts the node down (a request of the master, rosnode kill)
ros_shutdown ==
  /\ Running /\ ros_ok
  /\ ros_ok' = FALSE
  /\ UNCHANGED <<ctrl_vars, proc, main_vars, n_msgs, obs_vars>>
  /\ UNCHANGED <<shutdown_, rtde_alive, pub_pc, joined, sig_thread, sig_pc, sig_j>>

(***************************************************************************)
(* Specification                                                           *)
(***************************************************************************)
\* the state once main has started the three threads
Init ==
  /\ desired_trajectory_ = <<>>
  /\ new_trajectory_received_ = FALSE
  /\ actual_joint_position_ = <<>>
  /\ ros_rate_ = "none"
  /\ shutdown_ = FALSE
  /\ ros_ok = TRUE
  /\ rtde_alive = TRUE
  /\ proc = "running"
  /\ main_pc = "while" /\ main_j = 1
  /\ pub_pc = [t \in Pubs |-> "while"]
  /\ joined = [t \in Pubs |-> FALSE]
  /\ sig_thread = "none" /\ sig_pc = "idle" /\ sig_j = 1
  /\ n_msgs = 0
  /\ last = NoOp
  /\ traj_sub = <<>> /\ sent = <<>> /\ fate = "none"
  /\ discarded = 0

\* requests of the environment, drawn from the given sets
Requests(trajectories, goals) ==
  \/ \E msg \in trajectories : jointTrajectoryCallback(msg)
  \/ \E msg \in goals : jointGoalCallback(msg)
  \/ cartesianGoalCallback
  \/ stopRobotCallback

ControlLoop ==
  \/ main_while
  \/ spinner_update
  \/ spinner_idle
  \/ spinner_moveJ
  \/ spinner_erase

Triggers ==
  \/ zeroFTSensorCallback
  \/ \E free_axes \in FreeAxes : startFreedriveModeCallback(free_axes)
  \/ stopFreedriveModeCallback

Telemetry ==
  \/ \E t \in Pubs : publish_while(t)
  \/ \E t \in Pubs : publish_body(t)

Shutdown ==
  \/ \E t \in {"main", "other"} \cup Pubs : signalHandler(t)
  \/ handler_join
  \/ handler_delete
  \/ handler_exit
  \/ main_join
  \/ main_delete
  \/ main_return
  \/ main_use_after_free
  \/ ros_shutdown

\* the whole program, with few requests; SIGINT is delivered once
Next ==
  \/ n_msgs < MaxShutdownMsgs /\ Requests(ShutdownTrajectories, ShutdownGoals)
  \/ ControlLoop
  \/ Telemetry
  \/ Shutdown

Spec == Init /\ [][Next]_vars

\* the same program under a fair scheduler: a thread that can take a step
\* takes one in the end, be it the main thread, a telemetry thread or the
\* thread running signalHandler; requests, signals and faults are not forced
MainThread == ControlLoop \/ main_join \/ main_delete \/ main_return
HandlerThread == handler_join \/ handler_delete \/ handler_exit
FairSpec ==
  /\ Spec
  /\ WF_vars(MainThread)
  /\ WF_vars(HandlerThread)
  /\ \A t \in Pubs : WF_vars(publish_while(t) \/ publish_body(t))

\* the control loop while the node runs, with every kind of request: neither
\* SIGINT nor a shutdown of the node; the telemetry threads, which touch none
\* of its variables but ros_rate_, run in Spec
NextRunning ==
  \/ n_msgs < MaxMsgs /\ Requests(Trajectories, JointGoals)
  \/ n_msgs < MaxMsgs /\ Triggers
  \/ ControlLoop

SpecRunning == Init /\ [][NextRunning]_vars

\* the safety status service, queried while the control loop idles
NextStatus ==
  \/ /\ n_msgs < MaxMsgs
     /\ \E robot_mode \in RobotModes, safety_mode \in SafetyModes,
           safety_status_bits \in SafetyStatusBits :
          GetSafetyStatusCallback(robot_mode, safety_mode, safety_status_bits)
  \/ main_while
  \/ spinner_update
  \/ spinner_idle

SpecStatus == Init /\ [][NextStatus]_vars

\* the kinematics services, which convert poses, while the control loop idles
NextPose ==
  \/ n_msgs < MaxMsgs /\ \E tcp_position \in Poses : GetInverseKinematicCallback(tcp_position)
  \/ n_msgs < MaxMsgs /\ \E tcp_pose \in TcpPoses : GetForwardKinematicCallback(tcp_pose)
  \/ main_while
  \/ spinner_update
  \/ spinner_idle

SpecPose == Init /\ [][NextPose]_vars

(***************************************************************************)
(* Properties                                                              *)
(***************************************************************************)
\* a step of the main thread that starts a motion or stop command
IssuesCommand ==
  \/ n_msgs' # n_msgs /\ last'.cmds # <<>>
  \/ main_pc = "tick" /\ main_pc' = "moving"
  \/ main_pc = "moving" /\ main_pc' = "while" /\ Len(last'.cmds) > Len(last.cmds)

\* the latest operation handled a joint goal
JointGoalHandled == last.op = "jointGoal"
\* positions of a goal that are not 6 values within the joint limits
Malformed(positions) ==
  \/ Len(positions) # 6
  \/ \E i \in DOMAIN positions : positions[i] > JOINT_LIMITS \/ positions[i] < -JOINT_LIMITS
\* the latest operation planned a joint goal: its positions and duration
\* passed the checks and the path length was computed
JointGoalPlanned ==
  /\ JointGoalHandled
  /\ ~Malformed(last.msg.positions)
  /\ last.msg.time_from_start # 0
  /\ proc # "crashed"

\* C1: a trajectory p1..pn (n >= 1) that is neither replaced, stopped nor
\* pre-empted is dispatched in submission order, one point per tick, each
\* point once: the points sent so far are a prefix of the trajectory, the
\* points still held are the rest of it, no tick is idle before the last
\* point, and after the last point all of it has been sent.
C1_DispatchInOrder ==
  (fate \in {"active", "done"} /\ traj_sub # <<>>) =>
     /\ Len(sent) <= Len(traj_sub)
     /\ sent = SubSeq(traj_sub, 1, Len(sent))
     /\ fate = "done" => sent = traj_sub /\ ~new_trajectory_received_
     /\ fate = "active" =>
          /\ new_trajectory_received_
          /\ desired_trajectory_ =
               SubSeq(traj_sub, IF main_pc = "moving" THEN Len(sent) ELSE Len(sent) + 1,
                      Len(traj_sub))
     /\ (last.op = "spinner" /\ main_pc = "moving") =>
          last.cmds = <<Cmd("moveJ", sent[Len(sent)], DEFAULT_SPEED, DEFAULT_ACCELERATION)>>

C1_Witness ==
  /\ fate = "done" /\ Len(traj_sub) >= 2 /\ sent = traj_sub
  /\ traj_sub[1] # traj_sub[2]

\* C2, as claimed: once a stop request is handled during a trajectory, the
\* queue holds no pending point and is idle.
C2_StopClearsQueue ==
  fate = "stopped" => desired_trajectory_ = <<>> /\ ~new_trajectory_received_

\* C2, amended: once a stop request is handled during a trajectory, the
\* controller is idle and, until a trajectory is submitted, no further point
\* is dispatched; the pending points stay stored.
C2_StopIdles ==
  /\ [](fate = "stopped" => ~new_trajectory_received_)
  /\ [][(fate = "stopped" /\ fate' = "stopped") =>
          (sent' = sent /\ main_pc' # "moving" /\ desired_trajectory_' = desired_trajectory_)]_vars

C2_Witness ==
  /\ fate = "stopped" /\ desired_trajectory_ # <<>>
  /\ last.op = "spinner" /\ last.cmds = <<>> /\ main_pc = "while"

\* C3: a trajectory with zero points leads to no motion command and to no
\* read of a head point that does not exist.
C3_EmptyTrajectoryNoMotion ==
  (traj_sub = <<>> /\ fate \in {"active", "done"}) => (sent = <<>> /\ proc # "crashed")

\* C4: on every shutdown path the controller is deleted (stopJ, disconnect)
\* only after the three telemetry threads have terminated.
C4_DeleteAfterThreads ==
  ~rtde_alive => \A t \in Pubs : pub_pc[t] = "done" /\ joined[t]

C4_Witness ==
  /\ ~rtde_alive /\ sig_pc = "exit" /\ sig_thread = "other"
  /\ \A t \in Pubs : pub_pc[t] = "done"

\* C5: no loop is torn down while one of its hardware calls is in flight:
\* when the controller is deleted or the process exits on the interrupt, the
\* control loop is not inside moveJ and no telemetry loop is inside a read.
C5_NoLoopTornDown ==
  (shutdown_ /\ (~rtde_alive \/ proc = "exited")) =>
     (main_pc # "moving" /\ \A t \in Pubs : pub_pc[t] # "read")

\* C6: once the controller is deleted and disconnected, no thread starts a
\* motion or stop command.
C6_NoCommandAfterDisconnect == [][~rtde_alive => ~IssuesCommand]_vars

\* C7: a joint goal without exactly 6 positions, or with a position beyond
\* the joint limit, is dropped with no effect: no command, no notification,
\* the trajectory and its flag unchanged, the control loop still running.
C7_MalformedGoalDropped ==
  [][(n_msgs' # n_msgs /\ last'.op = "jointGoal" /\ Malformed(last'.msg.positions)) =>
       /\ last'.cmds = <<>> /\ last'.pubs = 0
       /\ desired_trajectory_' = desired_trajectory_
       /\ new_trajectory_received_' = new_trajectory_received_
       /\ proc' = "running" /\ main_pc' = main_pc]_vars

C7_Witness ==
  /\ JointGoalHandled /\ Malformed(last.msg.positions) /\ Len(last.msg.positions) = 6
  /\ new_trajectory_received_ /\ desired_trajectory_ # <<>>

\* C8: a joint goal whose duration is zero or negative is dropped: no motion
\* command is issued for it.
C8_NonPositiveDurationDropped ==
  (JointGoalHandled /\ last.msg.time_from_start <= 0) => last.cmds = <<>>

\* C9: a joint goal whose computed velocity ta * acceleration exceeds the
\* maximum is rejected without a command; a command carries exactly the
\* computed velocity, which is at most the maximum.
C9_VelocityChecked ==
  JointGoalPlanned =>
    LET velocity2 == (Ta2(last.msg.time_from_start, last.L) * ACCELERATION) \div K
    IN  /\ velocity2 > 2 * JOINT_VELOCITY_MAX => last.cmds = <<>> /\ last.pubs = 0
        /\ last.cmds # <<>> =>
             /\ Len(last.cmds) = 1 /\ last.cmds[1].name = "moveJ"
             /\ last.cmds[1].velocity = velocity2
             /\ last.cmds[1].velocity <= 2 * JOINT_VELOCITY_MAX

C9_Witness ==
  /\ JointGoalPlanned /\ last.cmds = <<>>
  /\ (Ta2(last.msg.time_from_start, last.L) * ACCELERATION) \div K > 2 * JOINT_VELOCITY_MAX

\* C10: the duration used for planning is the requested T when
\* T >= sqrt(4L/a_max) and sqrt(4L/a_max) otherwise, and a goal whose
\* duration was extended is still dispatched unless its velocity is too high.
C10_DurationExtended ==
  JointGoalPlanned =>
    LET T == last.msg.time_from_start
        Tmin == SqrtUp(MinTimeSq(last.L))
    IN  /\ last.T = IF T >= Tmin THEN T ELSE Tmin
        /\ (last.T # T /\ (Ta2(T, last.L) * ACCELERATION) \div K <= 2 * JOINT_VELOCITY_MAX)
             => last.cmds # <<>>

\* C11: for a joint goal that passes validation with a positive duration,
\* the acceleration phase satisfies 0 <= ta <= T/2 for the duration T used, so
\* the velocity handed to moveJ is neither negative nor above a_max*T/2.
C11_TaWithinHalfDuration ==
  (JointGoalPlanned /\ last.msg.time_from_start > 0) =>
    LET ta2 == Ta2(last.msg.time_from_start, last.L)
    IN  /\ 0 <= ta2 /\ ta2 <= last.T
        /\ \A i \in DOMAIN last.cmds :
             /\ last.cmds[i].velocity >= 0
             /\ last.cmds[i].velocity * K <= ACCELERATION * last.T

\* C12: in every tick, the first one included, the robot state is refreshed
\* before a joint goal is validated: the callback runs after this tick's read
\* of the joint positions, against a sample of six positions.
C12_RefreshBeforeValidation ==
  [][(n_msgs' # n_msgs /\ last'.op = "jointGoal") =>
       /\ main_pc \in {"tick", "moving"}
       /\ Len(actual_joint_position_) = 6]_vars

C14_ActiveIffPointsLeft ==
  /\ [](new_trajectory_received_ => Len(desired_trajectory_) >= 1)
  /\ [][LET stop == n_msgs' # n_msgs /\ last'.op = "stopRobot"
            consumed == /\ main_pc = "moving" /\ main_pc' = "while"
                        /\ Len(desired_trajectory_) = 1 /\ desired_trajectory_' = <<>>
        IN  /\ (new_trajectory_received_ /\ ~new_trajectory_received_') => (stop \/ consumed)
            /\ (stop \/ consumed) => ~new_trajectory_received_']_vars

\* C15: the tick that dispatches the last point of a trajectory leaves the
\* queue idle, issues exactly one stopJ and publishes exactly one "trajectory
\* executed"; a tick that dispatches an earlier point, and a tick that finds
\* the queue idle, issue no stop and publish nothing.
C15_StopAndNotifyOnLastPoint ==
  [][LET stops(cmds) == Len(SelectSeq(cmds, LAMBDA c : c.name \in {"stopJ", "speedStop"}))
         returns == main_pc = "moving" /\ main_pc' = "while"
     IN  /\ (returns /\ Len(desired_trajectory_) = 1) =>
               /\ ~new_trajectory_received_' /\ desired_trajectory_' = <<>>
               /\ stops(last'.cmds) = 1 /\ last'.pubs = 1
         /\ (returns /\ Len(desired_trajectory_) >= 2) =>
               /\ new_trajectory_received_'
               /\ stops(last'.cmds) = 0 /\ last'.pubs = 0
         /\ (main_pc = "tick" /\ main_pc' = "while") =>
               /\ last'.op = "spinner"
               /\ last'.cmds = <<>> /\ last'.pubs = 0]_vars

\* a trajectory of two points has just ended: the tick of its first point
\* went by, the tick of its second issued the stop and the notification
C15_Witness ==
  /\ main_pc = "while" /\ last.op = "spinner" /\ fate = "done"
  /\ Len(traj_sub) = 2 /\ sent = traj_sub
  /\ Len(last.cmds) = 2 /\ last.cmds[2].name = "stopJ" /\ last.pubs = 1

\* C16: "trajectory executed" is published once for every trajectory whose
\* last point is consumed and once for every joint or Cartesian goal handed to
\* the robot, and at no other step: not for a refused goal, a stop, a
\* submission, or a tick that leaves points behind.  Step by step, so the
\* number published over any run is the number of completions and goals.
C16_OneNotificationEach ==
  [][LET returns == main_pc = "moving" /\ main_pc' = "while"
         published == IF n_msgs' # n_msgs \/ (main_pc = "tick" /\ main_pc' # "tick")
                      THEN last'.pubs
                      ELSE IF returns THEN last'.pubs - last.pubs
                      ELSE 0
         goal == /\ n_msgs' # n_msgs
                 /\ last'.op \in {"jointGoal", "cartesianGoal"}
                 /\ last'.cmds # <<>>
         completed == /\ returns
                      /\ Len(desired_trajectory_) = 1 /\ desired_trajectory_' = <<>>
     IN  published = IF goal \/ completed THEN 1 ELSE 0]_vars

\* a joint goal pre-empted a trajectory after its first point: the goal is
\* reported, the trajectory never was
C16_Witness ==
  /\ fate = "preempted" /\ Len(sent) = 1 /\ Len(traj_sub) = 2
  /\ last.op = "jointGoal" /\ last.cmds # <<>> /\ last.pubs = 1

\* C17: a motion or stop command is issued by the control-loop thread only,
\* and never while another one is in progress: the stopJ of the destructor is
\* issued by the main thread, not by a handler running on another thread, and
\* not while the main thread is inside moveJ.
C17_OnlyControlLoopCommands ==
  [][(rtde_alive /\ ~rtde_alive') =>
       LET thread == IF sig_pc = "delete" THEN sig_thread ELSE "main"
       IN  thread = "main" /\ main_pc # "moving"]_vars

\* C18: the control loop and each telemetry loop has a timer of its own: the
\* timer a loop sleeps on was last set by that loop (or not since its
\* construction), never by another loop.
C18_OwnTimer ==
  [][LET sleeps(loop) ==
           IF loop = "main"
           THEN main_pc \in {"tick", "moving"} /\ main_pc' = "while"
           ELSE pub_pc[loop] = "read" /\ pub_pc'[loop] = "while"
     IN  \A loop \in {"main"} \cup Pubs :
           sleeps(loop) => ros_rate_ \in {"none", loop}]_vars

\* C19: the safety status query never reads past the end of a label vector:
\* a code with no entry is answered with the label "unknown", and the node
\* keeps running.
C19_NoIndexPastEnd ==
  last.op = "GetSafetyStatus" =>
    LET res == last.msg
        label(v, i, l) == IF i >= 0 /\ i < Len(v) THEN l = v[i + 1] ELSE l = "unknown"
    IN  /\ proc # "crashed" /\ last.ok
        /\ label(robot_mode_msg, res.robot_mode + 1, res.robot_mode_msg)
        /\ label(safety_mode_msg, res.safety_mode, res.safety_mode_msg)
        /\ label(safety_status_bits_msg, res.safety_status_bits, res.safety_status_bits_msg)

\* C20: for the robot modes -1..8 and the safety modes 0..8 the query answers
\* with the label the documented table gives that code: VIOLATION for safety
\* mode 7, FAULT for safety mode 8.
C20_DocumentedLabels ==
  (last.op = "GetSafetyStatus" /\ last.msg.robot_mode \in -1 .. 8
     /\ last.msg.safety_mode \in 0 .. 8) =>
    /\ last.ok
    /\ last.msg.robot_mode_msg = RobotModeTable[last.msg.robot_mode + 2]
    /\ last.msg.safety_mode_msg = SafetyModeTable[last.msg.safety_mode + 1]

\* C21: the cached joint positions are written by one thread only, the main
\* thread in spinner(), and every access to them by the control loop (the
\* write in spinner(), the read in jointGoalCallback) finds the field whole:
\* no other thread has destroyed the controller that holds it.
C21_CacheOwnedByControlLoop ==
  [][LET writes == main_pc = "spin" /\ main_pc' = "tick"
         reads == n_msgs' # n_msgs /\ last'.op = "jointGoal"
     IN  /\ (actual_joint_position_' # actual_joint_position_) => (MainRuns /\ writes)
         /\ (writes \/ reads) => rtde_alive]_vars

\* C22: a stop, zero-force-sensor, start-freedrive or stop-freedrive request
\* makes its hardware call exactly once, whether the call succeeds or fails,
\* and answers with the result of that call.
C22_TriggerAnswersResult ==
  [][LET call == [stopRobot |-> "speedStop", zeroFTSensor |-> "zeroFtSensor",
                  startFreedriveMode |-> "freedriveMode",
                  stopFreedriveMode |-> "endFreedriveMode"]
     IN  (n_msgs' # n_msgs /\ last'.op \in DOMAIN call) =>
            /\ Len(last'.cmds) = 1
            /\ last'.cmds[1].name = call[last'.op]
            /\ last'.ok = last'.cmds[1].result]_vars

\* zeroFtSensor failed: it was called once and the answer is false
C22_Witness ==
  /\ last.op = "zeroFTSensor" /\ ~last.ok
  /\ Len(last.cmds) = 1 /\ ~last.cmds[1].result

\* tolerance of the comparison of two orientations, in units of 1/Q
Tolerance == 20
Near(p, q) ==
  /\ Abs(p.w - q.w) <= Tolerance /\ Abs(p.x - q.x) <= Tolerance
  /\ Abs(p.y - q.y) <= Tolerance /\ Abs(p.z - q.z) <= Tolerance
Opposite(q) == [w |-> -q.w, x |-> -q.x, y |-> -q.y, z |-> -q.z]
Identity == [w |-> Q, x |-> 0, y |-> 0, z |-> 0]

\* C23: RTDE2Pose applied to the pose that Pose2RTDE produced gives the
\* position of the original exactly and its orientation, q or -q, within the
\* tolerance; the identity orientation gives the rotation vector (0,0,0) and
\* comes back as the identity.
C23_PoseRoundTrip ==
  last.op = "GetInverseKinematic" =>
    LET p == last.msg
        tcp_pose == last.cmds[1].target
        back == RTDE2Pose(tcp_pose)
    IN  /\ back.position = p.position
        /\ Near(back.orientation, p.orientation)
             \/ Near(back.orientation, Opposite(p.orientation))
        /\ p.orientation = Identity =>
             /\ SubSeq(tcp_pose, 4, 6) = <<0, 0, 0>>
             /\ back.orientation = Identity

\* a pose with w < 0, turned about an oblique axis, has been converted
C23_Witness ==
  /\ last.op = "GetInverseKinematic"
  /\ last.msg.orientation.w < 0
  /\ last.msg.orientation.x # 0 /\ last.msg.orientation.y # 0 /\ last.msg.orientation.z # 0
  /\ squaredNorm(SubSeq(last.cmds[1].target, 4, 6)) > 0

\* the three publisher loops have left, their threads are joined, the robot
\* is disconnected and the process has exited
Terminated ==
  /\ proc = "exited" /\ ~rtde_alive
  /\ \A t \in Pubs : pub_pc[t] = "done" /\ joined[t]

\* C24: once SIGINT has been received while the node runs (the ROS runtime
\* does not shut it down by itself) the process reaches Terminated, under fair
\* scheduling, whichever thread runs signalHandler.
C24_InterruptTerminates == <>(~ros_ok) \/ (shutdown_ ~> Terminated)

=============================================================================
